---------------------------- MODULE Spec2Model ----------------------------
(***************************************************************************)
(* Model of day1/run/sim.py: a command dispatcher that drives the          *)
(* QuestaSim tools (vlib, vlog, vsim) and manages two directories.         *)
(*                                                                         *)
(* Strings that are built or joined by the script are sequences of         *)
(* lexemes; in a path the separator "/" is always a lexeme of its own, so  *)
(* "../sim" is <<"..", "/", "sim">>.  A command line is a sequence of such *)
(* strings.                                                                *)
(*                                                                         *)
(* The filesystem is a function from the paths of the existing             *)
(* directories to the set of entries each one holds.  The parent directory *)
(* ".." exists and is writable, the two paths are either absent or         *)
(* directories, and directory creation and removal succeed.                *)
(***************************************************************************)
EXTENDS Integers, Sequences, FiniteSets, TLC

\* ------------------------------------------------------------------ bounds
\* Largest number of command-line arguments after the script name.
MaxArgs == 2
\* External tools return a code in -1 .. MaxExitCode (negative: killed by a
\* signal, as subprocess reports it).
MaxExitCode == 2

\* ------------------------------------------------- configuration variables
SEP == "/"

\* os.path.join(a, b) for two components (posixpath.join).
join(a, b) ==
    IF b # <<>> /\ Head(b) = SEP THEN b
    ELSE IF a = <<>> \/ a[Len(a)] = SEP THEN a \o b
    ELSE a \o <<SEP>> \o b

SRC_DIR == <<"..", "/", "src">>

SIM_DIR == <<"..", "/", "sim">>

\* The literal "../quartus" of ensure_dirs.
QUARTUS_DIR == <<"..", "/", "quartus">>

VERILOG_FILES ==
    << join(SRC_DIR, <<"d1_design.v">>), join(SRC_DIR, <<"d1_test.v">>) >>

TOP_MODULE == <<"d1_test">>

VSIM_OPTIONS == << <<"-vopt">>, <<"-voptargs=+acc">> >>

\* ------------------------------------------------------------------- state
VARIABLES
    argv,     \* sys.argv of the running (or last) process
    pc,       \* position of the process in the script; "exit" when it ended
    fs,       \* filesystem: existing directory path -> set of its entries
    fs0,      \* the filesystem when the process started
    stdout,   \* what the process has printed, one element per print call
    calls,    \* external invocations of the process: [cmd, rc], in order
    status    \* exit status of the process (0 unless something set it)

vars == <<argv, pc, fs, fs0, stdout, calls, status>>

\* ------------------------------------------------------ filesystem helpers
\* os.path.exists(p)
exists(f, p) == p \in DOMAIN f

\* os.makedirs(p), p absent
makedirs(f, p) == [q \in DOMAIN f \cup {p} |-> IF q = p THEN {} ELSE f[q]]

\* shutil.rmtree(p, ignore_errors=True)
rmtree_only_empty(f, p) ==
    IF p \in DOMAIN f /\ f[p] = {}
    THEN [q \in DOMAIN f \ {p} |-> f[q]]
    ELSE f

rmtree(f, p) == [q \in DOMAIN f \ {p} |-> f[q]]

ensure_dirs_first_only(f) ==
    IF ~exists(f, QUARTUS_DIR) THEN makedirs(f, QUARTUS_DIR) ELSE f

ensure_dirs_recreate(f) ==
    makedirs(makedirs(f, QUARTUS_DIR), SIM_DIR)

ensure_dirs(f) ==
    LET f1 == IF ~exists(f, QUARTUS_DIR) THEN makedirs(f, QUARTUS_DIR) ELSE f
    IN  IF ~exists(f1, SIM_DIR) THEN makedirs(f1, SIM_DIR) ELSE f1


\* ------------------------------------------------------- command builders
\* Index of the first occurrence of token t in command line c, 0 if none.
IndexOf(c, t) ==
    IF \E i \in 1..Len(c) : c[i] = t
    THEN CHOOSE i \in 1..Len(c) : c[i] = t /\ \A j \in 1..(i-1) : c[j] # t
    ELSE 0

\* The string that follows option t in command line c.
OptionValue(c, t) == c[IndexOf(c, t) + 1]

vlib_cmd == << <<"vlib">>, SIM_DIR >>

vlog_cmd_reversed ==
    << <<"vlog">>, <<"-work">>, SIM_DIR >>
        \o << VERILOG_FILES[2], VERILOG_FILES[1] >>

vlog_cmd == << <<"vlog">>, <<"-work">>, SIM_DIR >> \o VERILOG_FILES

\* The -do scripts, one lexeme per instruction or separator.
DO_BATCH == <<"log -r /*", " ; ", "run -all", "; ", "quit">>

DO_GUI == <<"log -r /*">>

simulate_vsim_cmd ==
    << <<"vsim">> >> \o VSIM_OPTIONS \o
    << <<"-c">>,
       <<"-do">>, DO_BATCH,
       TOP_MODULE,
       <<"-work">>, SIM_DIR,
       <<"-l">>, join(SIM_DIR, <<"simulation.log">>),
       <<"-wlf">>, join(SIM_DIR, <<"waveform.wlf">>) >>

simulate_gui_vsim_cmd_batch == simulate_vsim_cmd

simulate_gui_vsim_cmd ==
    << <<"vsim">> >> \o VSIM_OPTIONS \o
    << <<"-do">>, DO_GUI,
       TOP_MODULE,
       <<"-work">>, SIM_DIR >>

view_wave_cmd_default == << <<"vsim">>, <<"-view">>, <<"vsim.wlf">> >>

view_wave_cmd == << <<"vsim">>, <<"-view">>, join(SIM_DIR, <<"waveform.wlf">>) >>

help_text ==
    << "",
       "Usage: python sim.py [command]",
       "",
       "Commands:",
       "  simulate       : Run simulation in batch mode.",
       "  simulate_gui   : Run simulation in GUI mode.",
       "  view_wave      : View the generated waveform.",
       "  clean          : Clean the simulation directory.",
       "  help           : Display this help message.",
       "" >>

\* ----------------------------------------------------------- run_command
\* sep.join(seq) on a sequence of strings
RECURSIVE str_join(_, _)
str_join(sep, seq) ==
    IF seq = <<>> THEN <<>>
    ELSE IF Len(seq) = 1 THEN seq[1]
    ELSE seq[1] \o sep \o str_join(sep, Tail(seq))

\* What print("Running:", " ".join(cmd)) writes.
running_line(cmd) == <<"Running:", " ">> \o str_join(<<" ">>, cmd)

\* Entries a tool leaves in the simulation directory when it succeeds: the
\* library created by vlib, the units compiled by vlog, and the files named
\* by the -l and -wlf options of vsim.
Produces(cmd) ==
    IF cmd[1] = <<"vlib">> THEN {"_info"}
    ELSE IF cmd[1] = <<"vlog">> THEN {"_lib.qdb"}
    ELSE (IF IndexOf(cmd, <<"-l">>) > 0
            /\ OptionValue(cmd, <<"-l">>) = join(SIM_DIR, <<"simulation.log">>)
          THEN {"simulation.log"} ELSE {})
         \cup
         (IF IndexOf(cmd, <<"-wlf">>) > 0
            /\ OptionValue(cmd, <<"-wlf">>) = join(SIM_DIR, <<"waveform.wlf">>)
          THEN {"waveform.wlf"} ELSE {})

\* The filesystem after the child process of check_call(cmd) returned rc.
tool_effect(f, cmd, rc) ==
    IF rc = 0 /\ exists(f, SIM_DIR)
    THEN [f EXCEPT ![SIM_DIR] = @ \cup Produces(cmd)]
    ELSE f

\* subprocess.check_call raises CalledProcessError on a non-zero code.
check_call_raises_never(rc) == FALSE

check_call_raises(rc) == rc # 0

RetCodes == (-1)..MaxExitCode

\* run_command(cmd) with the child returning rc; the script goes on at
\* position next when no exception is raised.  An exception is caught
\* nowhere: the interpreter prints the traceback and exits with status 1.
run_command(cmd, rc, next) ==
    /\ stdout' = Append(stdout, running_line(cmd))
    /\ calls' = Append(calls, [cmd |-> cmd, rc |-> rc])
    /\ fs' = tool_effect(fs, cmd, rc)
    /\ IF check_call_raises(rc)
       THEN pc' = "exit" /\ status' = 1
       ELSE pc' = next /\ status' = status
    /\ UNCHANGED <<argv, fs0>>

\* ------------------------------------------------------------ the inputs
Commands == {"simulate", "simulate_gui", "view_wave", "clean", "help"}

\* Command-line tokens tried: the five commands and two that are none.
Tokens == Commands \cup {"bogus", "Simulate"}

ArgLists == UNION { [1..n -> Tokens] : n \in 0..MaxArgs }

\* Entries the simulation directory may hold when a process starts.
SimEntries == {"_info", "_lib.qdb", "simulation.log", "waveform.wlf"}

\* Filesystems a process may start in: each of the two directories absent
\* or present, the simulation directory with any contents.
FsStates ==
    { f \in UNION { [D -> SUBSET SimEntries] : D \in SUBSET {QUARTUS_DIR, SIM_DIR} } :
        QUARTUS_DIR \in DOMAIN f => f[QUARTUS_DIR] = {} }

\* sys.argv[i]
Argv(i) == argv[i + 1]

\* ----------------------------------------------------------------- actions
Init ==
    /\ argv \in { <<"sim.py">> \o a : a \in ArgLists }
    /\ pc = "main"
    /\ fs \in FsStates
    /\ fs0 = fs
    /\ stdout = <<>>
    /\ calls = <<>>
    /\ status = 0

\* The shell starts the script again once the previous process has ended.
Invoke ==
    /\ pc = "exit"
    /\ \E a \in ArgLists : argv' = <<"sim.py">> \o a
    /\ pc' = "main"
    /\ fs0' = fs
    /\ stdout' = <<>>
    /\ calls' = <<>>
    /\ status' = 0
    /\ UNCHANGED fs

MainNoCommand_no_exit_code ==
    /\ pc = "main"
    /\ Len(argv) < 2
    /\ stdout' = Append(stdout, help_text)
    /\ pc' = "exit"
    /\ UNCHANGED <<argv, fs, fs0, calls, status>>

\* if len(sys.argv) < 2: print_help(); sys.exit(1)
MainNoCommand ==
    /\ pc = "main"
    /\ Len(argv) < 2
    /\ stdout' = Append(stdout, help_text)
    /\ status' = 1
    /\ pc' = "exit"
    /\ UNCHANGED <<argv, fs, fs0, calls>>

\* The if/elif chain on a command it knows: the function is entered.
MainDispatch ==
    /\ pc = "main"
    /\ Len(argv) >= 2
    /\ Argv(1) \in Commands
    /\ pc' = Argv(1)
    /\ UNCHANGED <<argv, fs, fs0, stdout, calls, status>>

\* The else branch: two prints, then the script runs off its end.
MainUnknown ==
    /\ pc = "main"
    /\ Len(argv) >= 2
    /\ Argv(1) \notin Commands
    /\ stdout' = stdout \o << <<"Unknown command:", " ", Argv(1)>>, help_text >>
    /\ pc' = "exit"
    /\ UNCHANGED <<argv, fs, fs0, calls, status>>

\* simulate(), up to its first external command
simulate_ensure_dirs ==
    /\ pc = "simulate"
    /\ fs' = ensure_dirs(fs)
    /\ pc' = "simulate_vlib"
    /\ UNCHANGED <<argv, fs0, stdout, calls, status>>

simulate_vlib ==
    /\ pc = "simulate_vlib"
    /\ \E rc \in RetCodes : run_command(vlib_cmd, rc, "simulate_vlog")

simulate_vlog ==
    /\ pc = "simulate_vlog"
    /\ \E rc \in RetCodes : run_command(vlog_cmd, rc, "simulate_vsim")

simulate_vsim ==
    /\ pc = "simulate_vsim"
    /\ \E rc \in RetCodes : run_command(simulate_vsim_cmd, rc, "exit")

\* simulate_gui()
simulate_gui_ensure_dirs ==
    /\ pc = "simulate_gui"
    /\ fs' = ensure_dirs(fs)
    /\ pc' = "simulate_gui_vlib"
    /\ UNCHANGED <<argv, fs0, stdout, calls, status>>

simulate_gui_vlib ==
    /\ pc = "simulate_gui_vlib"
    /\ \E rc \in RetCodes : run_command(vlib_cmd, rc, "simulate_gui_vlog")

simulate_gui_vlog ==
    /\ pc = "simulate_gui_vlog"
    /\ \E rc \in RetCodes : run_command(vlog_cmd, rc, "simulate_gui_vsim")

simulate_gui_vsim ==
    /\ pc = "simulate_gui_vsim"
    /\ \E rc \in RetCodes : run_command(simulate_gui_vsim_cmd, rc, "exit")

view_wave ==
    /\ pc = "view_wave"
    /\ \E rc \in RetCodes : run_command(view_wave_cmd, rc, "exit")

clean ==
    /\ pc = "clean"
    /\ fs' = rmtree(fs, SIM_DIR)
    /\ stdout' = Append(stdout, <<"Cleaned simulation directory.">>)
    /\ pc' = "exit"
    /\ UNCHANGED <<argv, fs0, calls, status>>

print_help_then_exit_1 ==
    /\ pc = "help"
    /\ stdout' = Append(stdout, help_text)
    /\ status' = 1
    /\ pc' = "exit"
    /\ UNCHANGED <<argv, fs, fs0, calls>>

print_help ==
    /\ pc = "help"
    /\ stdout' = Append(stdout, help_text)
    /\ pc' = "exit"
    /\ UNCHANGED <<argv, fs, fs0, calls, status>>

Next ==
    \/ Invoke
    \/ MainNoCommand
    \/ MainDispatch
    \/ MainUnknown
    \/ simulate_ensure_dirs
    \/ simulate_vlib
    \/ simulate_vlog
    \/ simulate_vsim
    \/ simulate_gui_ensure_dirs
    \/ simulate_gui_vlib
    \/ simulate_gui_vlog
    \/ simulate_gui_vsim
    \/ view_wave
    \/ clean
    \/ print_help

Spec == Init /\ [][Next]_vars

\* -------------------------------------------------------------- properties
\* The process has ended and its command was c.
Ran(c) == pc = "exit" /\ Len(argv) >= 2 /\ Argv(1) = c

\* The process was started with command c.
Running(c) == Len(argv) >= 2 /\ Argv(1) = c

\* The command lines issued so far, in order.
Cmds == [k \in 1..Len(calls) |-> calls[k].cmd]

AllZero == \A k \in 1..Len(calls) : calls[k].rc = 0

IsPrefix(s, t) == Len(s) <= Len(t) /\ \A k \in 1..Len(s) : s[k] = t[k]

BothExist(f) == exists(f, QUARTUS_DIR) /\ exists(f, SIM_DIR)

ExpectedVlib == << <<"vlib">>, SIM_DIR >>

ExpectedVlog == << <<"vlog">>, <<"-work">>, SIM_DIR >> \o VERILOG_FILES

ExpectedBatchVsim ==
    << <<"vsim">> >> \o VSIM_OPTIONS \o
    << <<"-c">>, <<"-do">>, <<"log -r /*", " ; ", "run -all", "; ", "quit">>,
       TOP_MODULE, <<"-work">>, SIM_DIR,
       <<"-l">>, SIM_DIR \o <<"/", "simulation.log">>,
       <<"-wlf">>, SIM_DIR \o <<"/", "waveform.wlf">> >>

\* C1: while every tool of a simulate run has exited zero, the invocations
\* issued are a prefix of <<vlib, vlog, vsim (batch)>>, and when the run has
\* ended they are exactly these three, in this order.
C1_SimulateThreeInvocations ==
    (Running("simulate") /\ AllZero) =>
        /\ IsPrefix(Cmds, <<ExpectedVlib, ExpectedVlog, ExpectedBatchVsim>>)
        /\ pc = "exit" =>
             Cmds = <<ExpectedVlib, ExpectedVlog, ExpectedBatchVsim>>

C1_Witness ==
    Ran("simulate") /\ Len(calls) = 3 /\ AllZero /\ status = 0

\* C2: in simulate and simulate_gui an invocation that exits non-zero is the
\* last one of the process, which has ended with a non-zero status; after a
\* failed vlog no vsim is started.
C2_FailureStopsTheAction ==
    (Running("simulate") \/ Running("simulate_gui")) =>
        \A k \in 1..Len(calls) :
            calls[k].rc # 0 =>
                /\ k = Len(calls)
                /\ pc = "exit"
                /\ status # 0
                /\ calls[k].cmd[1] = <<"vlog">> =>
                     \A j \in 1..Len(calls) : calls[j].cmd[1] # <<"vsim">>

C2_Witness ==
    /\ Ran("simulate")
    /\ Len(calls) = 2
    /\ calls[1].rc = 0
    /\ calls[2].cmd[1] = <<"vlog">>
    /\ calls[2].rc # 0
    /\ status = 1

\* C3: a process started with a token that is no command prints the unknown
\* command message and the usage text, runs no tool, changes no directory
\* and ends with a non-zero status.
C3_UnknownCommandFails ==
    (pc = "exit" /\ Len(argv) >= 2 /\ Argv(1) \notin Commands) =>
        /\ stdout = << <<"Unknown command:", " ", Argv(1)>>, help_text >>
        /\ calls = <<>>
        /\ fs = fs0
        /\ status # 0

\* C4: a process started without argument enters no action routine, runs no
\* tool and changes no directory, and ends having printed the usage text,
\* with a non-zero status.
C4_NoArgumentUsageAndFailure ==
    Len(argv) < 2 =>
        /\ pc \in {"main", "exit"}
        /\ calls = <<>>
        /\ fs = fs0
        /\ pc = "exit" => (stdout = <<help_text>> /\ status # 0)

C4_Witness ==
    pc = "exit" /\ Len(argv) < 2 /\ stdout = <<help_text>> /\ status = 1

\* C5: a help process runs no tool and changes no directory, and ends having
\* printed the usage text (what the process without argument prints), with
\* status zero.
C5_HelpUsageAndSuccess ==
    Running("help") =>
        /\ calls = <<>>
        /\ fs = fs0
        /\ pc = "exit" => (stdout = <<help_text>> /\ status = 0)

C5_Witness ==
    Ran("help") /\ stdout = <<help_text>> /\ BothExist(fs)

\* C6: whatever the simulation directory was when clean started, clean ends
\* with status zero, has printed the confirmation, and the simulation
\* directory does not exist.
C6_CleanRemovesSimDir ==
    Ran("clean") =>
        /\ status = 0
        /\ stdout = << <<"Cleaned simulation directory.">> >>
        /\ ~exists(fs, SIM_DIR)
        /\ calls = <<>>

C6_Witness ==
    /\ Ran("clean")
    /\ exists(fs0, SIM_DIR)
    /\ fs0[SIM_DIR] = SimEntries
    /\ ~exists(fs, SIM_DIR)

\* C7: view_wave issues one invocation, vsim -view SIM_DIR/waveform.wlf,
\* creates neither directory, and the path it names is the one simulate
\* passes to vsim as -wlf.
C7_ViewWaveSingleInvocation ==
    /\ Running("view_wave") =>
        /\ Len(calls) <= 1
        /\ DOMAIN fs = DOMAIN fs0
        /\ \A k \in 1..Len(calls) :
             /\ calls[k].cmd =
                  << <<"vsim">>, <<"-view">>, SIM_DIR \o <<"/", "waveform.wlf">> >>
             /\ calls[k].cmd[3] = OptionValue(simulate_vsim_cmd, <<"-wlf">>)
        /\ pc = "exit" => Len(calls) = 1
    /\ \A k \in 1..Len(calls) :
         calls[k].cmd[1] \in {<<"vlib">>, <<"vlog">>} => ~Running("view_wave")

C7_Witness ==
    /\ Ran("view_wave")
    /\ Len(calls) = 1
    /\ ~exists(fs0, SIM_DIR)
    /\ ~exists(fs, SIM_DIR)
    /\ ~exists(fs, QUARTUS_DIR)

\* C8: ensure_dirs ends with both directories existing, changes nothing when
\* both exist already, and applied twice gives what it gives applied once;
\* a process that has just run it is in such a filesystem.
C8_EnsureDirsIdempotent ==
    /\ BothExist(ensure_dirs(fs))
    /\ BothExist(fs) => ensure_dirs(fs) = fs
    /\ ensure_dirs(ensure_dirs(fs)) = ensure_dirs(fs)
    /\ pc \in {"simulate_vlib", "simulate_gui_vlib"} =>
         /\ BothExist(fs)
         /\ BothExist(fs0) => fs = fs0
         /\ ensure_dirs(fs) = fs

C8_Witness ==
    /\ pc = "simulate_gui_vlib"
    /\ BothExist(fs0)
    /\ fs0[SIM_DIR] # {}
    /\ fs = fs0

ExpectedGuiVsim ==
    << <<"vsim">> >> \o VSIM_OPTIONS \o
    << <<"-do">>, <<"log -r /*">>, TOP_MODULE, <<"-work">>, SIM_DIR >>

\* C9: simulate_gui prepares the directories, then while every tool has
\* exited zero its invocations are a prefix of <<vlib, vlog, vsim (gui)>>,
\* exactly these three when it has ended; its vsim has no -c, and its -do
\* string is the start-logging instruction alone.
C9_SimulateGuiThreeInvocations ==
    Running("simulate_gui") =>
        /\ calls # <<>> => BothExist(fs)
        /\ AllZero =>
             /\ IsPrefix(Cmds, <<ExpectedVlib, ExpectedVlog, ExpectedGuiVsim>>)
             /\ pc = "exit" =>
                  Cmds = <<ExpectedVlib, ExpectedVlog, ExpectedGuiVsim>>
        /\ \A k \in 1..Len(calls) :
             calls[k].cmd[1] = <<"vsim">> =>
                /\ IndexOf(calls[k].cmd, <<"-c">>) = 0
                /\ \A i \in 1..Len(OptionValue(calls[k].cmd, <<"-do">>)) :
                     OptionValue(calls[k].cmd, <<"-do">>)[i]
                        \notin {"run -all", "quit"}
                /\ OptionValue(calls[k].cmd, <<"-work">>) = SIM_DIR
                /\ IndexOf(calls[k].cmd, TOP_MODULE) > 0

C9_Witness ==
    Ran("simulate_gui") /\ Len(calls) = 3 /\ AllZero /\ status = 0

\* C10: whenever simulate or simulate_gui is about to issue an invocation
\* both directories exist; only clean takes the simulation directory away,
\* and nothing takes the build-artifact directory away.
C10_DirsExistAtInvocations ==
    /\ [](pc \in {"simulate_vlib", "simulate_vlog", "simulate_vsim",
                  "simulate_gui_vlib", "simulate_gui_vlog", "simulate_gui_vsim"}
            => BothExist(fs))
    /\ [][ /\ (exists(fs, SIM_DIR) /\ ~exists(fs', SIM_DIR)) => pc = "clean"
           /\ exists(fs, QUARTUS_DIR) => exists(fs', QUARTUS_DIR) ]_vars

C10_Witness ==
    /\ pc = "simulate_vsim"
    /\ ~exists(fs0, SIM_DIR)
    /\ ~exists(fs0, QUARTUS_DIR)
    /\ BothExist(fs)

=============================================================================
